---- MODULE Spec2Model ----
(***************************************************************************)
(* Aura: daily sleep / weight log ingestion and derived metrics.           *)
(*                                                                         *)
(* The model follows the newest server (src/unnamed/part_000).             *)
(*                                                                         *)
(* Representation of JavaScript values                                     *)
(*   string      a tuple of one-character strings, <<"2","3",":","0","0">> *)
(*   absent      the empty tuple <<>> (undefined and "" are both falsy and *)
(*               every handler only tests them with !x)                    *)
(*   number      [nan |-> FALSE, v |-> n] or NaN; comparisons with NaN are *)
(*               false and arithmetic on NaN gives NaN                     *)
(*   hours       a number counted in tenths of an hour (the code only      *)
(*               produces values with one decimal, line 215)               *)
(*   date        a one-element tuple <<d>>, d the calendar day number of   *)
(*               the 'YYYY-MM-DD' string                                   *)
(***************************************************************************)
EXTENDS Integers, Sequences, FiniteSets, TLC

VARIABLES
  users,        \* table users: rows in insertion order
  sleep_logs,   \* table sleep_logs
  weight_logs,  \* table weight_logs
  reqs,         \* the handler invocations in flight, by slot
  ops,          \* number of HTTP requests received so far
  last,         \* the request answered last, with its response
  calc          \* the derivations applied to drawn inputs (SpecCalc)

vars == <<users, sleep_logs, weight_logs, reqs, ops, last, calc>>

\* ------------------------------------------------------------------
\* JavaScript values
\* ------------------------------------------------------------------

Undefined == << >>

Null == <<"null">>

NaN == [nan |-> TRUE, v |-> 0]

Num(n) == [nan |-> FALSE, v |-> n]

IsNum(x) == ~x.nan

\* x + y, x - y, x * y on numbers
JsAdd(x, y) == IF x.nan \/ y.nan THEN NaN ELSE Num(x.v + y.v)

JsSub(x, y) == IF x.nan \/ y.nan THEN NaN ELSE Num(x.v - y.v)

JsMul(x, y) == IF x.nan \/ y.nan THEN NaN ELSE Num(x.v * y.v)

\* x <= y, x < y, x >= y, x > y : false as soon as one side is NaN
JsLe(x, y) == ~x.nan /\ ~y.nan /\ x.v <= y.v

JsLt(x, y) == ~x.nan /\ ~y.nan /\ x.v < y.v

JsGe(x, y) == JsLe(y, x)

JsGt(x, y) == JsLt(y, x)

Digits == <<"0", "1", "2", "3", "4", "5", "6", "7", "8", "9">>

IsDigit(c) == \E i \in 1..10 : Digits[i] = c

DigitVal(c) == (CHOOSE i \in 1..10 : Digits[i] = c) - 1

\* String.prototype.split(':') : the segments between the colons
RECURSIVE SplitFrom(_, _, _)
SplitFrom(str, i, cur) ==
  IF i > Len(str) THEN <<cur>>
  ELSE IF str[i] = ":" THEN <<cur>> \o SplitFrom(str, i + 1, << >>)
  ELSE SplitFrom(str, i + 1, Append(cur, str[i]))

Split(str) == SplitFrom(str, 1, << >>)

\* Number(segment) : "" is 0, a run of decimal digits is its value, any
\* other text over the model's alphabet (digits, ":", the letters a-d) is NaN
RECURSIVE DigitsValue(_, _)
DigitsValue(seg, acc) ==
  IF seg = << >> THEN acc
  ELSE DigitsValue(Tail(seg), 10 * acc + DigitVal(Head(seg)))

Number(seg) ==
  IF \A i \in 1..Len(seg) : IsDigit(seg[i]) THEN Num(DigitsValue(seg, 0)) ELSE NaN

\* const [h, m] = timeStr.split(':').map(Number) : a missing element is
\* undefined, and undefined in arithmetic or a comparison behaves as NaN
Segment(timeStr, k) ==
  LET segs == Split(timeStr)
  IN  IF Len(segs) >= k THEN Number(segs[k]) ELSE NaN

\* ------------------------------------------------------------------
\* Time arithmetic
\* ------------------------------------------------------------------

MinutesPerHour == 60

MinutesPerDay == 24 * 60

timeToMinutes(timeStr) ==
  JsAdd(JsMul(Segment(timeStr, 1), Num(MinutesPerHour)), Segment(timeStr, 2))

\* Faulty variant: the end is moved to the next day only when it is
\* strictly before the start.
endMinutesStrict(startMinutes, endMinutes) ==
  IF JsLt(endMinutes, startMinutes) THEN JsAdd(endMinutes, Num(24 * 60))
  ELSE endMinutes

\* let endMinutes = timeToMinutes(sleepEnd);
\* if (endMinutes <= startMinutes) endMinutes += 24 * 60;
endMinutesOf(startMinutes, endMinutes) ==
  IF JsLe(endMinutes, startMinutes) THEN JsAdd(endMinutes, Num(MinutesPerDay))
  ELSE endMinutes

\* endMinutes - startMinutes, the operand of line 215
durationMinutes(sleepStart, sleepEnd) ==
  LET startMinutes == timeToMinutes(sleepStart)
  IN  JsSub(endMinutesOf(startMinutes, timeToMinutes(sleepEnd)), startMinutes)

\* ------------------------------------------------------------------
\* (minutes / 60).toFixed(1) on IEEE-754 doubles
\* ------------------------------------------------------------------

SignificandBits == 53

\* The double nearest to num/den (num, den > 0) is found by long division:
\* after the leading bit, SignificandBits-1 further quotient bits are
\* produced and the remainder decides the rounding (ties to even).  The
\* result is the sign of double(num/den) - num/den.
RECURSIVE ScaleDen(_, _)
ScaleDen(num, den) == IF num >= 2 * den THEN ScaleDen(num, 2 * den) ELSE den

RECURSIVE ScaleNum(_, _)
ScaleNum(num, den) == IF num < den THEN ScaleNum(2 * num, den) ELSE num

RECURSIVE DivBits(_, _, _, _)
DivBits(r, den, k, lastBit) ==
  IF k = 0
  THEN IF r = 0 THEN 0
       ELSE IF 2 * r < den THEN -1
       ELSE IF 2 * r > den THEN 1
       ELSE IF lastBit = 1 THEN 1 ELSE -1
  ELSE IF 2 * r >= den THEN DivBits(2 * r - den, den, k - 1, 1)
       ELSE DivBits(2 * r, den, k - 1, 0)

DoubleErrSign(num, den) ==
  LET d == ScaleDen(num, den)
      n == ScaleNum(num, d)
  IN  DivBits(n - d, d, SignificandBits - 1, 1)

\* Number.prototype.toFixed(1) applied to the double x = mins / 60, as the
\* integer n of the decimal n/10: "let n be an integer for which n/10 - x is
\* as close to zero as possible; if there are two such n, pick the larger".
\* mins/60 is either exactly halfway between two tenths (mins % 6 = 3) or at
\* least 1/60 away from the halfway point, far more than the error of the
\* division, so only on a halfway point does the error of x decide.
toFixed1Pos(mins) ==
  LET lo  == mins \div 6
      rem == mins % 6
  IN  IF rem < 3 THEN lo
      ELSE IF rem > 3 THEN lo + 1
      ELSE IF DoubleErrSign(mins, MinutesPerHour) >= 0 THEN lo + 1 ELSE lo

\* const hoursSlept = parseFloat(((endMinutes - startMinutes) / 60).toFixed(1));
\* in tenths of an hour; toFixed of a negative x is "-" followed by
\* toFixed(-x), and NaN.toFixed(1) is "NaN", which parseFloat reads as NaN
hoursSleptOf(minutes) ==
  IF minutes.nan THEN NaN
  ELSE IF minutes.v = 0 THEN Num(0)
  ELSE IF minutes.v > 0 THEN Num(toFixed1Pos(minutes.v))
  ELSE Num(0 - toFixed1Pos(0 - minutes.v))

\* ------------------------------------------------------------------
\* Sleep quality
\* ------------------------------------------------------------------

\* values with one decimal place are counted in tenths: 7 hours is Hrs(7)
Tenths == 10

Hrs(n) == Num(n * Tenths)

Max(a, b) == IF a >= b THEN a ELSE b

Min(a, b) == IF a <= b THEN a ELSE b

\* Faulty variant: the second band starts above 6 hours instead of at 6.
baseQualityOpenBand(hours) ==
  IF JsGe(hours, Hrs(7)) /\ JsLe(hours, Hrs(9)) THEN 8
  ELSE IF JsGt(hours, Hrs(6)) /\ JsLt(hours, Hrs(7)) THEN 6
  ELSE IF JsGt(hours, Hrs(9)) /\ JsLe(hours, Hrs(10)) THEN 7
  ELSE IF JsLe(hours, Hrs(5)) THEN 3
  ELSE 5

baseQuality(hours) ==
  IF JsGe(hours, Hrs(7)) /\ JsLe(hours, Hrs(9)) THEN 8
  ELSE IF JsGe(hours, Hrs(6)) /\ JsLt(hours, Hrs(7)) THEN 6
  ELSE IF JsGt(hours, Hrs(9)) /\ JsLe(hours, Hrs(10)) THEN 7
  ELSE IF JsLe(hours, Hrs(5)) THEN 3
  ELSE 5

\* Faulty variant: 06:xx counts as a late bedtime too.
lateBedtimeThroughSix(sleepStart) ==
  /\ sleepStart # Undefined
  /\ LET h == Segment(sleepStart, 1)
     IN  JsGe(h, Num(1)) /\ JsLe(h, Num(6))

lateBedtime(sleepStart) ==
  /\ sleepStart # Undefined
  /\ LET h == Segment(sleepStart, 1)
     IN  JsGe(h, Num(1)) /\ JsLt(h, Num(6))

penalised(quality, sleepStart) ==
  IF lateBedtime(sleepStart) THEN Max(1, quality - 2) ELSE quality

\* Faulty variant: the penalty is subtracted twice and nothing is clamped.
calculateSleepQualityUnclamped(hours, sleepStart) ==
  IF lateBedtime(sleepStart) THEN baseQuality(hours) - 2 - 2 ELSE baseQuality(hours)

calculateSleepQuality(hours, sleepStart) ==
  Max(1, Min(10, penalised(baseQuality(hours), sleepStart)))

\* ------------------------------------------------------------------
\* Streak
\* ------------------------------------------------------------------

\* new Date(log.date) reads 'YYYY-MM-DD' as midnight UTC; setHours(0,0,0,0)
\* then moves the instant to the midnight of its LOCAL calendar day.  West
\* of Greenwich midnight UTC still belongs to the previous local day, so the
\* log lands one day early; at UTC and east of it the day is kept.
localDay(date, west) == IF west THEN date[1] - 1 ELSE date[1]

\* [...logs].sort((a, b) => new Date(b.date) - new Date(a.date)) : a stable
\* sort, newest first
RECURSIVE InsertDesc(_, _)
InsertDesc(sorted, log) ==
  IF sorted = << >> THEN <<log>>
  ELSE IF Head(sorted).date[1] >= log.date[1] THEN <<Head(sorted)>> \o InsertDesc(Tail(sorted), log)
  ELSE <<log>> \o sorted

RECURSIVE sortedLogsOf(_)
sortedLogsOf(logs) ==
  IF logs = << >> THEN << >>
  ELSE InsertDesc(sortedLogsOf(SubSeq(logs, 1, Len(logs) - 1)), logs[Len(logs)])

\* the for loop of lines 107-118: diffDays === streak ? streak++ : break
RECURSIVE StreakWalk(_, _, _, _)
StreakWalk(sortedLogs, streak, today, west) ==
  IF sortedLogs = << >> THEN streak
  ELSE IF today - localDay(Head(sortedLogs).date, west) = streak
       THEN StreakWalk(Tail(sortedLogs), streak + 1, today, west)
       ELSE streak

\* today is the local calendar day of new Date()
calculateStreak(logs, today, west) ==
  IF Len(logs) = 0 THEN 0
  ELSE StreakWalk(sortedLogsOf(logs), 0, today, west)

\* ------------------------------------------------------------------
\* The store (Supabase tables) and the requests in flight
\* ------------------------------------------------------------------

\* bounds of the model: handlers in flight at a time, requests in a run
MaxSlots == 2

MaxOps == 2

Slots == 1..MaxSlots

\* the calendar day of new Date() while the model runs, as a day number
Today == 10

\* strings of the model, by their characters
T2330 == <<"2", "3", ":", "3", "0">>

T0715 == <<"0", "7", ":", "1", "5">>

T0600 == <<"0", "6", ":", "0", "0">>

T2500 == <<"2", "5", ":", "0", "0">>

NoteText == <<"o", "k">>

\* a JSON number where a time string is expected (2330 for "23:30"): it is
\* truthy and has no split method, whatever its value
JNumber == <<"number">>

SeventyKg == <<"7", "0", "k", "g">>

\* a weight or a target as JSON delivers it: a number (in tenths), a
\* string, null, or nothing
WNumber(n) == [t |-> "number", n |-> n, s |-> << >>]

WNull == [t |-> "null", n |-> 0, s |-> << >>]

WString(s) == [t |-> "string", n |-> 0, s |-> s]

WUndefined == [t |-> "undefined", n |-> 0, s |-> << >>]

\* req.body of the log routes; the targets belong to POST /api/settings,
\* the username to ctx.from of the /start command; hours and quality are
\* fields that a client may send and that POST /api/sleep does not read
Body(telegramId, date, sleepStart, sleepEnd, weight, notes) ==
  [telegramId |-> telegramId, date |-> date, sleepStart |-> sleepStart,
   sleepEnd |-> sleepEnd, weight |-> weight, notes |-> notes,
   targetWeightKg |-> WUndefined, targetSleepHours |-> WUndefined,
   username |-> Undefined, hours |-> WUndefined, quality |-> WUndefined]

NoBody == Body(Undefined, Undefined, Undefined, Undefined, WUndefined, Undefined)

\* a free slot; also the shape of a handler's state: the request, where the
\* handler is suspended, its locals user.id, hoursSlept and quality, and
\* what it responds with: the error or ok (res), the rows the store call
\* returned (data), the hours and quality reported beside them
\* (calculated), the rows and the targets of the dashboard (sleep,
\* weight, user), the streak, and whether the sleep query of the dashboard
\* failed (sleepErr).
\* raced, replaced, backendOk, storeOk and west are history: another request
\* of the same kind for the same owner and date was in flight together with
\* this one; the rows that held the key when the store call of this one
\* ran; whether the select of the user lookup succeeded; whether its store
\* calls did; whether the server that computed the streak keeps its clock
\* west of UTC.
Idle ==
  [kind |-> "none", body |-> NoBody, pc |-> "idle", user_id |-> 0,
   hoursSlept |-> NaN, quality |-> 0, res |-> "none", raced |-> FALSE,
   replaced |-> << >>, data |-> << >>,
   calculated |-> [hours |-> NaN, quality |-> 0], sleep |-> << >>, weight |-> << >>,
   user |-> << >>, streak |-> 0, sleepErr |-> FALSE, backendOk |-> TRUE,
   storeOk |-> TRUE, west |-> FALSE]

\* ---- the store's primitives, as the handlers use them ----

SameKey(row, user_id, date) == row.user_id = user_id /\ row.date = date

HasKey(table, user_id, date) ==
  \E i \in 1..Len(table) : SameKey(table[i], user_id, date)

\* .select().eq('user_id', ..).eq('date', ..) : the rows of a key
RowsWith(table, user_id, date) ==
  LET Hit(row) == SameKey(row, user_id, date)
  IN  SelectSeq(table, Hit)

\* Faulty variants of the upsert, against which the properties of the store
\* are tested: an insert that ignores the conflict key, and an update that
\* keeps the stored notes when the new row has none.
UpsertAsInsert(table, row) == Append(table, row)

UpsertKeepingNotes(table, row) ==
  IF HasKey(table, row.user_id, row.date)
  THEN [i \in 1..Len(table) |->
          IF SameKey(table[i], row.user_id, row.date)
          THEN IF row.notes = Null THEN [row EXCEPT !.notes = table[i].notes] ELSE row
          ELSE table[i]]
  ELSE Append(table, row)

\* .upsert(row, { onConflict: 'user_id,date' }) : one atomic statement of the
\* store; the row that holds the key is replaced, otherwise the row is added
Upsert(table, row) ==
  IF HasKey(table, row.user_id, row.date)
  THEN [i \in 1..Len(table) |->
          IF SameKey(table[i], row.user_id, row.date) THEN row ELSE table[i]]
  ELSE Append(table, row)

\* Faulty variant of the delete: the filter on user_id is missing.
DeleteByDate(table, user_id, date) ==
  LET Keep(row) == row.date # date
  IN  SelectSeq(table, Keep)

\* .delete().eq('user_id', user.id).eq('date', date)
Delete(table, user_id, date) ==
  LET Keep(row) == ~SameKey(row, user_id, date)
  IN  SelectSeq(table, Keep)

\* .from('users').select('*').eq('telegram_id', id).maybeSingle() : no row
\* is data null, one row is that row, several rows are an error
UsersWith(table, telegramId) ==
  LET Match(u) == telegramId # Undefined /\ u.telegram_id = telegramId[1]
  IN  SelectSeq(table, Match)

\* Faulty variant of the lookup, as the routes did it before there was
\* getUserByTelegramId: if (userErr || !user) -> 'user not found'.
getUserConflated(table, telegramId, backendOk) ==
  LET found == UsersWith(table, telegramId)
  IN  IF ~backendOk \/ Len(found) # 1 THEN [err |-> "user_not_found", id |-> 0]
      ELSE [err |-> "none", id |-> found[1].id]

\* getUserByTelegramId: 'db_error', 'user_not_found' or the user
getUserByTelegramId(table, telegramId, backendOk) ==
  LET found == UsersWith(table, telegramId)
  IN  IF ~backendOk \/ Len(found) > 1 THEN [err |-> "db_error", id |-> 0]
      ELSE IF Len(found) = 0 THEN [err |-> "user_not_found", id |-> 0]
      ELSE [err |-> "none", id |-> found[1].id]

\* the row bot.start inserts for a new chat id; the store numbers the rows
NewUser(table, telegramId) ==
  [id |-> Len(table) + 1, telegram_id |-> telegramId[1], username |-> Null,
   target_weight_kg |-> WNull, target_sleep_hours |-> WNull]

\* notes || null
NotesOrNull(notes) == IF notes = Undefined THEN Null ELSE notes

\* parseFloat(weight): a number is itself; a string is read up to its first
\* character that is no digit, and is NaN when it starts with none.  NaN
\* leaves for the store as JSON null.
RECURSIVE DigitPrefix(_)
DigitPrefix(s) ==
  IF s = << >> \/ ~IsDigit(Head(s)) THEN << >>
  ELSE <<Head(s)>> \o DigitPrefix(Tail(s))

parseFloat(weight) ==
  IF weight.t = "number" THEN Num(weight.n)
  ELSE IF weight.t = "string" /\ DigitPrefix(weight.s) # << >>
       THEN Num(DigitsValue(DigitPrefix(weight.s), 0) * Tenths)
       ELSE NaN

\* Faulty variant of the row, as the first POST /api/sleep built it: hours
\* and quality are taken from the request when it carries them.
SleepRowChosen(user_id, body) ==
  LET hoursSlept == IF body.hours.t = "number" THEN Num(body.hours.n)
                    ELSE hoursSleptOf(durationMinutes(body.sleepStart, body.sleepEnd))
  IN  [user_id |-> user_id, date |-> body.date,
       sleep_start |-> body.sleepStart, sleep_end |-> body.sleepEnd,
       hours_slept |-> hoursSlept,
       quality_rating |-> IF body.quality.t = "number" THEN body.quality.n
                          ELSE calculateSleepQuality(hoursSlept, body.sleepStart),
       notes |-> NotesOrNull(body.notes)]

\* the row POST /api/sleep hands to upsert
SleepRow(user_id, body) ==
  LET hoursSlept == hoursSleptOf(durationMinutes(body.sleepStart, body.sleepEnd))
  IN  [user_id |-> user_id, date |-> body.date,
       sleep_start |-> body.sleepStart, sleep_end |-> body.sleepEnd,
       hours_slept |-> hoursSlept,
       quality_rating |-> calculateSleepQuality(hoursSlept, body.sleepStart),
       notes |-> NotesOrNull(body.notes)]

\* the row POST /api/weight hands to upsert
WeightRow(user_id, body) ==
  [user_id |-> user_id, date |-> body.date,
   weight_kg |-> parseFloat(body.weight), notes |-> NotesOrNull(body.notes)]

\* ---- what the clients send ----

\* The store outlives the server process: when the server starts, /start
\* has registered chat ids 1 and 2.
RegisteredUsers ==
  <<NewUser(<< >>, <<1>>), NewUser(<<NewUser(<< >>, <<1>>)>>, <<2>>)>>

\* the owners and dates of the requests, as (telegramId, date), and a chat
\* id that /start has not registered
Keys == { <<1, 1>>, <<1, 2>>, <<2, 1>> }

Unregistered == Len(RegisteredUsers) + 1

\* (sleepStart, sleepEnd, notes) of the sleep submissions
SleepInputs ==
  { <<T2330, T0715, NoteText>>, <<T2330, T0600, Undefined>> }

\* a body that also carries hours (12.0) and a quality of the client's
\* choosing, when it has no notes
WithChosen(body) ==
  IF body.notes = Undefined
  THEN [body EXCEPT !.hours = WNumber(120), !.quality = WNumber(10)]
  ELSE body

SleepBodies ==
  { WithChosen(Body(<<k[1]>>, <<k[2]>>, i[1], i[2], WUndefined, i[3])) :
      k \in Keys, i \in SleepInputs }
  \cup { Body(<<1>>, <<1>>, T2500, T0715, WUndefined, Undefined),
         Body(<<1>>, <<1>>, NoteText, T0715, WUndefined, Undefined),
         Body(<<Unregistered>>, <<1>>, T2330, T0715, WUndefined, Undefined),
         Body(<<1>>, <<1>>, T2330, Undefined, WUndefined, Undefined),
         Body(<<1>>, <<1>>, Undefined, T0715, WUndefined, NoteText),
         Body(<<1>>, Undefined, T2330, T0715, WUndefined, NoteText),
         Body(Undefined, <<1>>, T2330, T0715, WUndefined, NoteText) }

WeightBodies ==
  { Body(<<k[1]>>, <<k[2]>>, Undefined, Undefined, WNumber(705), Undefined) :
      k \in Keys }
  \cup { Body(<<1>>, <<1>>, Undefined, Undefined, WNumber(712), NoteText),
         Body(<<1>>, <<1>>, Undefined, Undefined, WUndefined, Undefined),
         Body(<<1>>, <<1>>, Undefined, Undefined, WNull, Undefined),
         Body(<<1>>, <<1>>, Undefined, Undefined, WNumber(0), Undefined),
         Body(<<1>>, <<1>>, Undefined, Undefined, WString(SeventyKg), Undefined) }

DeleteBodies ==
  { Body(<<k[1]>>, <<k[2]>>, Undefined, Undefined, WUndefined, Undefined) :
      k \in Keys \ {<<1, 2>>} }
  \cup { Body(<<1>>, Undefined, Undefined, Undefined, WUndefined, Undefined) }

\* targets: only the weight, only the sleep hours, both, for an unknown
\* chat id, and without a chat id
SettingsBody(telegramId, targetWeightKg, targetSleepHours) ==
  [NoBody EXCEPT !.telegramId = telegramId, !.targetWeightKg = targetWeightKg,
                 !.targetSleepHours = targetSleepHours]

SettingsBodies ==
  { SettingsBody(<<1>>, WNumber(650), WUndefined),
    SettingsBody(<<1>>, WUndefined, WNumber(80)),
    SettingsBody(<<2>>, WNumber(700), WNumber(75)),
    SettingsBody(<<Unregistered>>, WNumber(650), WUndefined),
    SettingsBody(Undefined, WNumber(650), WNumber(80)) }

\* req.params.telegramId of the GET routes, a piece of the URL
Param(n) == <<Digits[n + 1]>>

GetParams == { Param(1), Param(2), Param(Unregistered) }

\* ---- the handlers ----

\* a request is taken by the first free slot (slots have no identity)
FreeSlot(r) ==
  /\ reqs[r].pc = "idle"
  /\ \A q \in Slots : q < r => reqs[q].pc # "idle"

\* handler h sends its response and ends
Answer(h, res) == [h EXCEPT !.pc = "done", !.res = res]

\* the record of the request answered last
Done(req) == [n |-> last.n + 1, req |-> req]

\* the synchronous head of an HTTP handler, once a slot has taken the
\* request: destructure the body, validate (400 missing_fields), call
\* getUserByTelegramId and suspend on it
Accept(r, kind, body, missing) ==
  /\ ops < MaxOps
  /\ ops' = ops + 1
  /\ LET h == [Idle EXCEPT !.kind = kind, !.body = body, !.pc = "lookup"]
     IN  IF missing
         THEN /\ last' = Done(Answer(h, "missing_fields"))
              /\ reqs' = reqs
         ELSE /\ reqs' = [reqs EXCEPT ![r] = h]
              /\ last' = last
  /\ UNCHANGED <<users, sleep_logs, weight_logs, calc>>

\* Faulty variant of the validation of POST /api/sleep: sleepEnd is not
\* looked at.
PostSleepEndUnchecked(r, body) ==
  /\ FreeSlot(r)
  /\ Accept(r, "sleep", body,
         \/ body.telegramId = Undefined \/ body.date = Undefined
         \/ body.sleepStart = Undefined)

\* app.post('/api/sleep') up to the user lookup
PostSleep(r, body) ==
  /\ FreeSlot(r)
  /\ Accept(r, "sleep", body,
         \/ body.telegramId = Undefined \/ body.date = Undefined
         \/ body.sleepStart = Undefined \/ body.sleepEnd = Undefined)

\* app.post('/api/weight') up to the user lookup
PostWeight(r, body) ==
  /\ FreeSlot(r)
  /\ Accept(r, "weight", body,
         \/ body.telegramId = Undefined \/ body.date = Undefined
         \/ body.weight.t \in {"undefined", "null"})

\* app.post('/api/weight/delete') up to the user lookup
PostWeightDelete(r, body) ==
  /\ FreeSlot(r)
  /\ Accept(r, "weight_delete", body,
         body.telegramId = Undefined \/ body.date = Undefined)

\* app.post('/api/sleep/delete') up to the user lookup
PostSleepDelete(r, body) ==
  /\ FreeSlot(r)
  /\ Accept(r, "sleep_delete", body,
         body.telegramId = Undefined \/ body.date = Undefined)

\* Faulty variant of sendServerError: the exception is logged and nothing is
\* sent.
sendServerErrorSilent(h) == [h EXCEPT !.pc = "done"]

\* catch (err) { return sendServerError(res, label, err) } :
\* res.status(500).json({ error: 'server_error' })
sendServerError(h) == Answer(h, "server_error")

\* timeToMinutes(sleepStart), timeToMinutes(sleepEnd) of POST /api/sleep:
\* timeStr.split raises a TypeError when timeStr is not a string
splitThrows(body) == body.sleepStart = JNumber \/ body.sleepEnd = JNumber

\* parseInt(telegramId, 10): the leading decimal digits, NaN without any
parseInt(str) ==
  IF DigitPrefix(str) = << >> THEN NaN ELSE Num(DigitsValue(DigitPrefix(str), 0))

\* the argument of getUserByTelegramId: req.body.telegramId in the POST
\* routes, parseInt(req.params.telegramId, 10) in the GET routes; no row of
\* users has the telegram_id NaN
LookupId(h) ==
  IF h.kind \in {"dashboard", "streak"}
  THEN IF IsNum(parseInt(h.body.telegramId))
       THEN <<parseInt(h.body.telegramId).v>>
       ELSE Undefined
  ELSE h.body.telegramId

\* the user lookup returns: try { user = await getUserByTelegramId(..) }
\* catch (e) { 404 user_not_found / 500 db_error }.  The sleep handler then
\* derives hoursSlept and quality and issues the upsert; an exception of the
\* derivation is caught by the try of the handler, which answers through
\* sendServerError.  The other handlers issue their store call at once.
UserLookup(r, backendOk) ==
  /\ reqs[r].pc = "lookup"
  /\ LET got  == getUserByTelegramId(users, LookupId(reqs[r]), backendOk)
         row  == SleepRow(got.id, reqs[r].body)
         user == UsersWith(users, LookupId(reqs[r]))[1]
     IN  IF got.err # "none"
         THEN /\ last' = Done([Answer(reqs[r], got.err) EXCEPT !.backendOk = backendOk])
              /\ reqs' = [reqs EXCEPT ![r] = Idle]
         ELSE IF reqs[r].kind = "sleep" /\ splitThrows(reqs[r].body)
         THEN /\ last' = Done(sendServerError(reqs[r]))
              /\ reqs' = [reqs EXCEPT ![r] = Idle]
         ELSE /\ last' = last
              /\ reqs' =
                   IF reqs[r].kind = "sleep"
                   THEN [reqs EXCEPT ![r].pc = "write", ![r].user_id = got.id,
                                     ![r].hoursSlept = row.hours_slept,
                                     ![r].quality = row.quality_rating]
                   ELSE IF reqs[r].kind = "dashboard"
                   THEN [reqs EXCEPT ![r].pc = "write", ![r].user_id = got.id,
                                     ![r].user = <<user.target_weight_kg,
                                                   user.target_sleep_hours>>]
                   ELSE [reqs EXCEPT ![r].pc = "write", ![r].user_id = got.id]
  /\ UNCHANGED <<users, sleep_logs, weight_logs, ops, calc>>

\* handler q is in flight with a request of the kind, owner and date of r's
Racing(r, q) ==
  /\ q # r
  /\ reqs[q].kind = reqs[r].kind
  /\ reqs[q].pc \in {"lookup", "write"}
  /\ reqs[q].body.telegramId = reqs[r].body.telegramId
  /\ reqs[q].body.date = reqs[r].body.date

\* Faulty variant of the calculated pair: the hours before they are rounded
\* to one decimal, cut to tenths.
CalculatedUnrounded(h) ==
  LET minutes == durationMinutes(h.body.sleepStart, h.body.sleepEnd)
  IN  [hours |-> IF IsNum(minutes) THEN Num(minutes.v \div 6) ELSE NaN,
       quality |-> h.quality]

\* calculated: { hours: hoursSlept, quality } of the sleep response
Calculated(h) == [hours |-> h.hoursSlept, quality |-> h.quality]

\* the store call of r returns and r responds: { ok: true, .. } with the
\* rows the call returned (and, for a sleep log, the calculated pair) or, on
\* an error of the store, 500 db_error
StoreReturns(r, storeOk, replaced, data) ==
  /\ last' = Done([Answer(reqs[r], IF storeOk THEN "ok" ELSE "db_error")
                     EXCEPT !.raced = reqs[r].raced \/ \E q \in Slots : Racing(r, q),
                            !.replaced = replaced, !.storeOk = storeOk,
                            !.data = IF storeOk THEN data ELSE << >>,
                            !.calculated = IF storeOk /\ reqs[r].kind = "sleep"
                                           THEN Calculated(reqs[r]) ELSE @])
  /\ reqs' = [q \in Slots |->
                IF q = r THEN Idle
                ELSE IF Racing(r, q) THEN [reqs[q] EXCEPT !.raced = TRUE]
                ELSE reqs[q]]

\* the sleep_logs upsert of POST /api/sleep and the response
SleepUpsert(r, storeOk) ==
  /\ reqs[r].pc = "write"
  /\ reqs[r].kind = "sleep"
  /\ sleep_logs' = IF storeOk
                   THEN Upsert(sleep_logs, SleepRow(reqs[r].user_id, reqs[r].body))
                   ELSE sleep_logs
  /\ StoreReturns(r, storeOk,
                  RowsWith(sleep_logs, reqs[r].user_id, reqs[r].body.date),
                  RowsWith(sleep_logs', reqs[r].user_id, reqs[r].body.date))
  /\ UNCHANGED <<users, weight_logs, ops, calc>>

\* the weight_logs upsert of POST /api/weight and the response
WeightUpsert(r, storeOk) ==
  /\ reqs[r].pc = "write"
  /\ reqs[r].kind = "weight"
  /\ weight_logs' = IF storeOk
                    THEN Upsert(weight_logs, WeightRow(reqs[r].user_id, reqs[r].body))
                    ELSE weight_logs
  /\ StoreReturns(r, storeOk,
                  RowsWith(weight_logs, reqs[r].user_id, reqs[r].body.date),
                  RowsWith(weight_logs', reqs[r].user_id, reqs[r].body.date))
  /\ UNCHANGED <<users, sleep_logs, ops, calc>>

\* the delete of POST /api/weight/delete and the response
WeightDelete(r, storeOk) ==
  /\ reqs[r].pc = "write"
  /\ reqs[r].kind = "weight_delete"
  /\ weight_logs' = IF storeOk
                    THEN Delete(weight_logs, reqs[r].user_id, reqs[r].body.date)
                    ELSE weight_logs
  /\ StoreReturns(r, storeOk,
                  RowsWith(weight_logs, reqs[r].user_id, reqs[r].body.date), << >>)
  /\ UNCHANGED <<users, sleep_logs, ops, calc>>

\* the delete of POST /api/sleep/delete and the response
SleepDelete(r, storeOk) ==
  /\ reqs[r].pc = "write"
  /\ reqs[r].kind = "sleep_delete"
  /\ sleep_logs' = IF storeOk
                   THEN Delete(sleep_logs, reqs[r].user_id, reqs[r].body.date)
                   ELSE sleep_logs
  /\ StoreReturns(r, storeOk,
                  RowsWith(sleep_logs, reqs[r].user_id, reqs[r].body.date), << >>)
  /\ UNCHANGED <<users, weight_logs, ops, calc>>

\* ---- POST /api/settings ----

\* Faulty variant of POST /api/settings: the body is not validated.
PostSettingsUnchecked(r, body) ==
  /\ FreeSlot(r)
  /\ Accept(r, "settings", body, FALSE)

\* app.post('/api/settings') up to the user lookup
PostSettings(r, body) ==
  /\ FreeSlot(r)
  /\ Accept(r, "settings", body, body.telegramId = Undefined)

\* Faulty variant of updateData: a target the request leaves out is sent
\* as null, which makes the update a full replace.
updateDataWhole(body) ==
  [target_weight_kg |->
     IF body.targetWeightKg = WUndefined THEN WNull ELSE body.targetWeightKg,
   target_sleep_hours |->
     IF body.targetSleepHours = WUndefined THEN WNull ELSE body.targetSleepHours]

\* const updateData = {}; if (x !== undefined) updateData.k = x;
\* WUndefined under a key stands for updateData not having the key
updateDataOf(body) ==
  [target_weight_kg |-> body.targetWeightKg,
   target_sleep_hours |-> body.targetSleepHours]

\* .from('users').update(updateData).eq('id', id) : the columns updateData
\* names are set in the rows of that id, the other columns are kept
Update(table, id, updateData) ==
  [i \in 1..Len(table) |->
     IF table[i].id = id
     THEN [table[i] EXCEPT
             !.target_weight_kg =
                IF updateData.target_weight_kg = WUndefined THEN @
                ELSE updateData.target_weight_kg,
             !.target_sleep_hours =
                IF updateData.target_sleep_hours = WUndefined THEN @
                ELSE updateData.target_sleep_hours]
     ELSE table[i]]

\* .select() after the update: the rows of that id
UsersById(table, id) ==
  LET Hit(u) == u.id = id
  IN  SelectSeq(table, Hit)

\* the users update of POST /api/settings and the response
SettingsUpdate(r, storeOk) ==
  /\ reqs[r].pc = "write"
  /\ reqs[r].kind = "settings"
  /\ users' = IF storeOk
              THEN Update(users, reqs[r].user_id, updateDataOf(reqs[r].body))
              ELSE users
  /\ StoreReturns(r, storeOk, << >>, UsersById(users', reqs[r].user_id))
  /\ UNCHANGED <<sleep_logs, weight_logs, ops, calc>>

\* ---- GET /api/dashboard/:telegramId and GET /api/streak/:telegramId ----

\* the GET routes validate nothing before the lookup
GetDashboard(r, telegramId) ==
  /\ FreeSlot(r)
  /\ Accept(r, "dashboard", [NoBody EXCEPT !.telegramId = telegramId], FALSE)

GetStreak(r, telegramId) ==
  /\ FreeSlot(r)
  /\ Accept(r, "streak", [NoBody EXCEPT !.telegramId = telegramId], FALSE)

\* Faulty variant of the queries: the filter on user_id is missing.
SelectOwnerUnfiltered(table, user_id) == table

\* .select('*').eq('user_id', user.id)
SelectOwner(table, user_id) ==
  LET Own(row) == row.user_id = user_id
  IN  SelectSeq(table, Own)

\* .order('date', { ascending: false }) : newest first
RECURSIVE OrderByDateDesc(_)
OrderByDateDesc(rows) ==
  IF rows = << >> THEN << >>
  ELSE LET i == CHOOSE i \in 1..Len(rows) :
                  \A j \in 1..Len(rows) :
                    \/ rows[j].date[1] < rows[i].date[1]
                    \/ (rows[j].date[1] = rows[i].date[1] /\ i <= j)
           rest == [k \in 1..(Len(rows) - 1) |-> IF k < i THEN rows[k] ELSE rows[k + 1]]
       IN  <<rows[i]>> \o OrderByDateDesc(rest)

\* .limit(7)
DashboardLimit == 7

\* Faulty variant of the limit: one row more.
LimitPlusOne(rows, n) == SubSeq(rows, 1, Min(n + 1, Len(rows)))

Limit(rows, n) == SubSeq(rows, 1, Min(n, Len(rows)))

\* the sleep_logs query of the dashboard returns; the handler goes on to
\* the weight_logs query
DashboardSleep(r, storeOk) ==
  /\ reqs[r].pc = "write"
  /\ reqs[r].kind = "dashboard"
  /\ reqs' = [reqs EXCEPT
       ![r].pc = "second",
       ![r].sleepErr = ~storeOk,
       ![r].sleep = IF storeOk
                    THEN Limit(OrderByDateDesc(SelectOwner(sleep_logs, reqs[r].user_id)),
                               DashboardLimit)
                    ELSE << >>]
  /\ UNCHANGED <<users, sleep_logs, weight_logs, ops, last, calc>>

\* Faulty variant of the dashboard's response: only the error of the
\* weight query is looked at, so a failed sleep query is answered ok with
\* the weight rows and the targets.
DashboardWeightAlone(r, storeOk) ==
  /\ reqs[r].pc = "second"
  /\ reqs[r].kind = "dashboard"
  /\ last' = Done(
       IF ~storeOk
       THEN [Answer(reqs[r], "db_error") EXCEPT !.sleep = << >>, !.user = << >>,
                                                !.storeOk = storeOk]
       ELSE [Answer(reqs[r], "ok") EXCEPT
               !.weight = Limit(OrderByDateDesc(SelectOwner(weight_logs, reqs[r].user_id)),
                                DashboardLimit)])
  /\ reqs' = [reqs EXCEPT ![r] = Idle]
  /\ UNCHANGED <<users, sleep_logs, weight_logs, ops, calc>>

\* the weight_logs query returns and the dashboard responds: 500 db_error
\* if either query failed, else { ok, sleep, weight, user: targets }
DashboardWeight(r, storeOk) ==
  /\ reqs[r].pc = "second"
  /\ reqs[r].kind = "dashboard"
  /\ last' = Done(
       IF reqs[r].sleepErr \/ ~storeOk
       THEN [Answer(reqs[r], "db_error") EXCEPT !.sleep = << >>, !.user = << >>,
                                                !.storeOk = storeOk]
       ELSE [Answer(reqs[r], "ok") EXCEPT
               !.weight = Limit(OrderByDateDesc(SelectOwner(weight_logs, reqs[r].user_id)),
                                DashboardLimit)])
  /\ reqs' = [reqs EXCEPT ![r] = Idle]
  /\ UNCHANGED <<users, sleep_logs, weight_logs, ops, calc>>

\* the sleep_logs query of the streak returns (all rows of the user, no
\* limit) and the handler responds with calculateStreak of them
StreakQuery(r, storeOk, west) ==
  /\ reqs[r].pc = "write"
  /\ reqs[r].kind = "streak"
  /\ last' = Done(
       IF ~storeOk THEN [Answer(reqs[r], "db_error") EXCEPT !.storeOk = FALSE]
       ELSE LET sleepLogs == OrderByDateDesc(SelectOwner(sleep_logs, reqs[r].user_id))
            IN  [Answer(reqs[r], "ok") EXCEPT
                   !.sleep = sleepLogs, !.west = west,
                   !.streak = calculateStreak(sleepLogs, Today, west)])
  /\ reqs' = [reqs EXCEPT ![r] = Idle]
  /\ UNCHANGED <<users, sleep_logs, weight_logs, ops, calc>>

\* ---- bot.start: the /start command of the chat ----

Handle == <<"a", "n", "n">>

\* ctx.from of a /start: the chat id and the username, which may be absent
StartBody(id, username) ==
  [NoBody EXCEPT !.telegramId = <<id>>, !.username = username]

\* a registered chat id that carries a username now, and a new chat id
\* without one
StartBodies == { StartBody(1, Handle), StartBody(Unregistered, Undefined) }

\* { telegram_id: tgUser.id, username: tgUser.username || null }
StartRow(table, tgUser) ==
  [NewUser(table, tgUser.telegramId) EXCEPT
     !.username = IF tgUser.username = Undefined THEN Null ELSE tgUser.username]

\* .from('users').insert(row) : the row is added
Insert(table, row) == Append(table, row)

\* bot.start up to the select of the user
StartCommand(r, tgUser) ==
  /\ FreeSlot(r)
  /\ ops < MaxOps
  /\ ops' = ops + 1
  /\ reqs' = [reqs EXCEPT ![r] = [Idle EXCEPT !.kind = "start", !.body = tgUser,
                                              !.pc = "select"]]
  /\ UNCHANGED <<users, sleep_logs, weight_logs, last, calc>>

\* the welcome of bot.start, after which the handler ends
Welcome(h) == Answer(h, "welcome")

\* Faulty variant of the select step: a user that exists has its username
\* brought up to date with ctx.from.
StartSelectRefreshing(r, storeOk) ==
  /\ reqs[r].pc = "select"
  /\ reqs[r].kind = "start"
  /\ LET found    == UsersWith(users, reqs[r].body.telegramId)
         existing == storeOk /\ Len(found) = 1
     IN  IF existing
         THEN /\ last' = Done([Welcome(reqs[r]) EXCEPT !.replaced = found])
              /\ reqs' = [reqs EXCEPT ![r] = Idle]
              /\ users' = [i \in 1..Len(users) |->
                             IF users[i].id = found[1].id
                             THEN [users[i] EXCEPT
                                     !.username = StartRow(users, reqs[r].body).username]
                             ELSE users[i]]
         ELSE /\ reqs' = [reqs EXCEPT ![r].pc = "insert", ![r].backendOk = storeOk]
              /\ last' = last
              /\ users' = users
  /\ UNCHANGED <<sleep_logs, weight_logs, ops, calc>>

\* the select of bot.start returns: maybeSingle gives the user, or null
\* when there is none, or null and an error (the call failed, or several
\* rows hold the chat id); the error is only logged.  With a user the
\* handler goes on to the welcome, without one to the insert.
StartSelect(r, storeOk) ==
  /\ reqs[r].pc = "select"
  /\ reqs[r].kind = "start"
  /\ LET found    == UsersWith(users, reqs[r].body.telegramId)
         existing == storeOk /\ Len(found) = 1
     IN  IF existing
         THEN /\ last' = Done([Welcome(reqs[r]) EXCEPT !.replaced = found])
              /\ reqs' = [reqs EXCEPT ![r] = Idle]
         ELSE /\ reqs' = [reqs EXCEPT ![r].pc = "insert", ![r].backendOk = storeOk]
              /\ last' = last
  /\ UNCHANGED <<users, sleep_logs, weight_logs, ops, calc>>

\* the insert of bot.start returns (its error is only logged), and the
\* handler goes on to the welcome
StartInsert(r, storeOk) ==
  /\ reqs[r].pc = "insert"
  /\ reqs[r].kind = "start"
  /\ users' = IF storeOk THEN Insert(users, StartRow(users, reqs[r].body)) ELSE users
  /\ last' = Done([Welcome(reqs[r]) EXCEPT
                     !.storeOk = storeOk,
                     !.replaced = UsersWith(users, reqs[r].body.telegramId),
                     !.data = IF storeOk THEN <<StartRow(users, reqs[r].body)>>
                              ELSE << >>])
  /\ reqs' = [reqs EXCEPT ![r] = Idle]
  /\ UNCHANGED <<sleep_logs, weight_logs, ops, calc>>

CalcIdle == [op |-> "idle"]

Init ==
  /\ users = RegisteredUsers
  /\ sleep_logs = << >>
  /\ weight_logs = << >>
  /\ reqs = [r \in Slots |-> Idle]
  /\ ops = 0
  /\ last = [n |-> 0, req |-> Idle]
  /\ calc = CalcIdle

Next ==
  \/ \E r \in Slots, body \in SleepBodies : PostSleep(r, body)
  \/ \E r \in Slots, body \in WeightBodies : PostWeight(r, body)
  \/ \E r \in Slots, body \in DeleteBodies : PostWeightDelete(r, body)
  \/ \E r \in Slots, body \in DeleteBodies : PostSleepDelete(r, body)
  \/ \E r \in Slots, backendOk \in BOOLEAN : UserLookup(r, backendOk)
  \/ \E r \in Slots, storeOk \in BOOLEAN : SleepUpsert(r, storeOk)
  \/ \E r \in Slots, storeOk \in BOOLEAN : WeightUpsert(r, storeOk)
  \/ \E r \in Slots, storeOk \in BOOLEAN : WeightDelete(r, storeOk)
  \/ \E r \in Slots, storeOk \in BOOLEAN : SleepDelete(r, storeOk)

\* the log routes: submissions and deletes of sleep and weight logs
Spec == Init /\ [][Next]_vars

\* ------------------------------------------------------------------
\* All seven routes, each with a registered and an unregistered owner
\* ------------------------------------------------------------------

RouteOwners == { 1, 2, Unregistered }

RouteSleepBodies ==
  { Body(<<o>>, <<1>>, T2330, T0715, WUndefined, Undefined) : o \in RouteOwners }
  \cup { Body(<<1>>, <<1>>, JNumber, T0715, WUndefined, Undefined) }

RouteWeightBodies ==
  { Body(<<o>>, <<1>>, Undefined, Undefined, WNumber(705), Undefined) :
      o \in RouteOwners }

RouteDeleteBodies ==
  { Body(<<o>>, <<1>>, Undefined, Undefined, WUndefined, Undefined) :
      o \in {1, Unregistered} }

RoutesNext ==
  \/ \E r \in Slots, body \in RouteSleepBodies : PostSleep(r, body)
  \/ \E r \in Slots, body \in RouteWeightBodies : PostWeight(r, body)
  \/ \E r \in Slots, body \in RouteDeleteBodies : PostWeightDelete(r, body)
  \/ \E r \in Slots, body \in RouteDeleteBodies : PostSleepDelete(r, body)
  \/ \E r \in Slots, body \in SettingsBodies : PostSettings(r, body)
  \/ \E r \in Slots, telegramId \in GetParams : GetDashboard(r, telegramId)
  \/ \E r \in Slots, telegramId \in GetParams : GetStreak(r, telegramId)
  \/ \E r \in Slots, backendOk \in BOOLEAN : UserLookup(r, backendOk)
  \/ \E r \in Slots, storeOk \in BOOLEAN : SleepUpsert(r, storeOk)
  \/ \E r \in Slots, storeOk \in BOOLEAN : WeightUpsert(r, storeOk)
  \/ \E r \in Slots, storeOk \in BOOLEAN : WeightDelete(r, storeOk)
  \/ \E r \in Slots, storeOk \in BOOLEAN : SleepDelete(r, storeOk)
  \/ \E r \in Slots, storeOk \in BOOLEAN : SettingsUpdate(r, storeOk)
  \/ \E r \in Slots, storeOk \in BOOLEAN : DashboardSleep(r, storeOk)
  \/ \E r \in Slots, storeOk \in BOOLEAN : DashboardWeight(r, storeOk)
  \/ \E r \in Slots, storeOk, west \in BOOLEAN : StreakQuery(r, storeOk, west)

SpecRoutes == Init /\ [][RoutesNext]_vars

\* ------------------------------------------------------------------
\* The /start command beside the seven routes, for one owner
\* ------------------------------------------------------------------

OwnerSleepBody == Body(<<1>>, <<1>>, T2330, T0715, WUndefined, Undefined)

OwnerWeightBody == Body(<<1>>, <<1>>, Undefined, Undefined, WNumber(705), Undefined)

OwnerDeleteBody == Body(<<1>>, <<1>>, Undefined, Undefined, WUndefined, Undefined)

OwnerSettingsBody == SettingsBody(<<1>>, WNumber(650), WUndefined)

StartNext ==
  \/ \E r \in Slots, tgUser \in StartBodies : StartCommand(r, tgUser)
  \/ \E r \in Slots, storeOk \in BOOLEAN : StartSelect(r, storeOk)
  \/ \E r \in Slots, storeOk \in BOOLEAN : StartInsert(r, storeOk)
  \/ \E r \in Slots : PostSleep(r, OwnerSleepBody)
  \/ \E r \in Slots : PostWeight(r, OwnerWeightBody)
  \/ \E r \in Slots : PostWeightDelete(r, OwnerDeleteBody)
  \/ \E r \in Slots : PostSleepDelete(r, OwnerDeleteBody)
  \/ \E r \in Slots : PostSettings(r, OwnerSettingsBody)
  \/ \E r \in Slots : GetDashboard(r, Param(1))
  \/ \E r \in Slots : GetStreak(r, Param(1))
  \/ \E r \in Slots, backendOk \in BOOLEAN : UserLookup(r, backendOk)
  \/ \E r \in Slots, storeOk \in BOOLEAN : SleepUpsert(r, storeOk)
  \/ \E r \in Slots, storeOk \in BOOLEAN : WeightUpsert(r, storeOk)
  \/ \E r \in Slots, storeOk \in BOOLEAN : WeightDelete(r, storeOk)
  \/ \E r \in Slots, storeOk \in BOOLEAN : SleepDelete(r, storeOk)
  \/ \E r \in Slots, storeOk \in BOOLEAN : SettingsUpdate(r, storeOk)
  \/ \E r \in Slots, storeOk \in BOOLEAN : DashboardSleep(r, storeOk)
  \/ \E r \in Slots, storeOk \in BOOLEAN : DashboardWeight(r, storeOk)
  \/ \E r \in Slots, storeOk, west \in BOOLEAN : StreakQuery(r, storeOk, west)

SpecStart == Init /\ [][StartNext]_vars

\* ------------------------------------------------------------------
\* Sleep logs dated today and tomorrow, and the streak route
\* ------------------------------------------------------------------

\* the owner's submissions dated today and dated tomorrow
TodayBody == Body(<<1>>, <<Today>>, T2330, T0715, WUndefined, Undefined)

TomorrowBody == Body(<<1>>, <<Today + 1>>, T2330, T0600, WUndefined, Undefined)

\* the store is empty, or holds what an earlier submission dated tomorrow
\* has written
InitStreak ==
  /\ users = RegisteredUsers
  /\ sleep_logs \in { << >>, <<SleepRow(1, TomorrowBody)>> }
  /\ weight_logs = << >>
  /\ reqs = [r \in Slots |-> Idle]
  /\ ops = 0
  /\ last = [n |-> 0, req |-> Idle]
  /\ calc = CalcIdle

StreakNext ==
  \/ \E r \in Slots, body \in {TodayBody, TomorrowBody} : PostSleep(r, body)
  \/ \E r \in Slots, body \in {TodayBody, TomorrowBody} : PostSleepDelete(r, body)
  \/ \E r \in Slots : GetStreak(r, Param(1))
  \/ \E r \in Slots, backendOk \in BOOLEAN : UserLookup(r, backendOk)
  \/ \E r \in Slots, storeOk \in BOOLEAN : SleepUpsert(r, storeOk)
  \/ \E r \in Slots, storeOk \in BOOLEAN : SleepDelete(r, storeOk)
  \/ \E r \in Slots, storeOk, west \in BOOLEAN : StreakQuery(r, storeOk, west)

SpecStreak == InitStreak /\ [][StreakNext]_vars

\* ------------------------------------------------------------------
\* The GET routes over a store that earlier submissions have filled
\* ------------------------------------------------------------------

\* days of logs in the store: two more than the dashboard shows
ReadDays == DashboardLimit + 2

FirstDay == Today - ReadDays + 1

\* the days FirstDay .. Today + 1 in the order of their submission: oldest
\* first, or the even days before the odd ones
DaysInOrder == [i \in 1..(ReadDays + 1) |-> FirstDay + i - 1]

EvenDay(d) == d % 2 = 0

OddDay(d) == d % 2 = 1

EvensFirst == SelectSeq(DaysInOrder, EvenDay) \o SelectSeq(DaysInOrder, OddDay)

Reversed(seq) == [i \in 1..Len(seq) |-> seq[Len(seq) + 1 - i]]

\* the (user, day) of the submissions of users 1 and 2, in their order
RECURSIVE KeysOf(_, _, _)
KeysOf(order, days1, days2) ==
  IF order = << >> THEN << >>
  ELSE (IF Head(order) \in days1 THEN << <<1, Head(order)>> >> ELSE << >>)
       \o (IF Head(order) \in days2 THEN << <<2, Head(order)>> >> ELSE << >>)
       \o KeysOf(Tail(order), days1, days2)

\* who logged on which days: user 1 on all of the last ReadDays days, on the
\* last DashboardLimit days, on all but today, with a gap and a log dated
\* tomorrow, or on few days beside a user 2 who logged every day
Histories ==
  { << >>,
    KeysOf(DaysInOrder, FirstDay..Today, {Today, Today + 1}),
    KeysOf(EvensFirst, FirstDay..Today, {Today - 1}),
    KeysOf(EvensFirst, (Today - DashboardLimit + 1)..Today, { }),
    KeysOf(DaysInOrder, FirstDay..(Today - 1), {Today}),
    KeysOf(EvensFirst, (FirstDay..(Today + 1)) \ {Today - 2}, {FirstDay}),
    KeysOf(DaysInOrder, {Today - 1, Today}, FirstDay..Today) }

\* the tables after the submissions of a history; the weights were
\* submitted in the opposite order
RECURSIVE StoredSleep(_)
StoredSleep(keys) ==
  IF keys = << >> THEN << >>
  ELSE LET k == keys[Len(keys)]
       IN  Upsert(StoredSleep(SubSeq(keys, 1, Len(keys) - 1)),
                  SleepRow(k[1], Body(<<k[1]>>, <<k[2]>>, T2330, T0715, WUndefined, Undefined)))

RECURSIVE StoredWeight(_)
StoredWeight(keys) ==
  IF keys = << >> THEN << >>
  ELSE LET k == keys[Len(keys)]
       IN  Upsert(StoredWeight(SubSeq(keys, 1, Len(keys) - 1)),
                  WeightRow(k[1], Body(<<k[1]>>, <<k[2]>>, Undefined, Undefined,
                                       WNumber(705), Undefined)))

InitRead ==
  /\ users = RegisteredUsers
  /\ \E h \in Histories :
       /\ sleep_logs = StoredSleep(h)
       /\ weight_logs = StoredWeight(Reversed(h))
  /\ reqs = [r \in Slots |-> Idle]
  /\ ops = 0
  /\ last = [n |-> 0, req |-> Idle]
  /\ calc = CalcIdle

\* a telegramId of the URL that is no number
ReadParams == GetParams \cup { <<"a">> }

ReadNext ==
  \/ \E r \in Slots, telegramId \in ReadParams : GetDashboard(r, telegramId)
  \/ \E r \in Slots, telegramId \in ReadParams : GetStreak(r, telegramId)
  \/ \E r \in Slots, backendOk \in BOOLEAN : UserLookup(r, backendOk)
  \/ \E r \in Slots, storeOk \in BOOLEAN : DashboardSleep(r, storeOk)
  \/ \E r \in Slots, storeOk \in BOOLEAN : DashboardWeight(r, storeOk)
  \/ \E r \in Slots, storeOk, west \in BOOLEAN : StreakQuery(r, storeOk, west)

SpecRead == InitRead /\ [][ReadNext]_vars

\* ------------------------------------------------------------------
\* The derivations on their own: time arithmetic, quality, streak
\* ------------------------------------------------------------------

\* "HH:MM" as a time input writes it
HHMM(h, m) ==
  <<Digits[(h \div 10) + 1], Digits[(h % 10) + 1], ":",
    Digits[(m \div 10) + 1], Digits[(m % 10) + 1]>>

ClockTimes == { HHMM(h, m) : h \in 0..23, m \in 0..59 }

\* strings that are no time of day
Malformed ==
  { T2500, <<"7">>, <<"a", "b", ":", "c", "d">>, <<"1", "2", ":", "6", "0">>,
    <<"2", "4", ":", "0", "0">>, <<"0", "3">>, <<"0", "7", ":">> }

StartSamples ==
  { HHMM(0, 0), HHMM(0, 1), HHMM(2, 0), HHMM(12, 0), HHMM(23, 30), HHMM(23, 59) }

EndSamples == { HHMM(7, 15), HHMM(0, 0) }

\* lines 207-216 of POST /api/sleep on one (sleepStart, sleepEnd)
CalcSleep(sleepStart, sleepEnd) ==
  /\ LET minutes    == durationMinutes(sleepStart, sleepEnd)
         hoursSlept == hoursSleptOf(minutes)
     IN  calc' = [op |-> "sleep", sleepStart |-> sleepStart, sleepEnd |-> sleepEnd,
                  startMinutes |-> timeToMinutes(sleepStart),
                  endMinutes |-> timeToMinutes(sleepEnd),
                  minutes |-> minutes, hoursSlept |-> hoursSlept,
                  quality |-> calculateSleepQuality(hoursSlept, sleepStart)]
  /\ UNCHANGED <<users, sleep_logs, weight_logs, reqs, ops, last>>

\* hours drawn for calculateSleepQuality, in tenths: -2.0 .. 12.0, and NaN
MaxHours == 12

HoursValues == { Num(t) : t \in (0 - 2 * Tenths)..(MaxHours * Tenths) } \cup {NaN}

QualityStarts ==
  {Undefined} \cup { HHMM(h, m) : h \in 0..23, m \in {0, 59} } \cup Malformed

CalcQuality(hours, sleepStart) ==
  /\ calc' = [op |-> "quality", hours |-> hours, sleepStart |-> sleepStart,
              quality |-> calculateSleepQuality(hours, sleepStart)]
  /\ UNCHANGED <<users, sleep_logs, weight_logs, reqs, ops, last>>

\* the days logged for the streak: up to StreakBack days before Today and
\* one day after it
StreakBack == 4

LogDays == (Today - StreakBack)..(Today + 1)

\* the days of a set as logs, oldest first or newest first
RECURSIVE Ascending(_)
Ascending(days) ==
  IF days = {} THEN << >>
  ELSE LET d == CHOOSE x \in days : \A y \in days : x <= y
       IN  <<[date |-> <<d>>]>> \o Ascending(days \ {d})

LogLists == { Ascending(days) : days \in SUBSET LogDays }
            \cup { Reversed(Ascending(days)) : days \in SUBSET LogDays }

CalcStreak(logs, west) ==
  /\ calc' = [op |-> "streak", logs |-> logs, today |-> Today, west |-> west,
              streak |-> calculateStreak(logs, Today, west)]
  /\ UNCHANGED <<users, sleep_logs, weight_logs, reqs, ops, last>>

\* each derivation is applied once to the inputs drawn
CalcNext ==
  \/ /\ calc.op = "idle"
     /\ \E sleepStart \in StartSamples, sleepEnd \in ClockTimes :
          CalcSleep(sleepStart, sleepEnd)
  \/ /\ calc.op = "idle"
     /\ \E sleepStart \in StartSamples \cup Malformed,
           sleepEnd \in EndSamples \cup Malformed :
          CalcSleep(sleepStart, sleepEnd)
  \/ /\ calc.op = "idle"
     /\ \E hours \in HoursValues, sleepStart \in QualityStarts :
          CalcQuality(hours, sleepStart)
  \/ /\ calc.op = "idle"
     /\ \E logs \in LogLists, west \in BOOLEAN : CalcStreak(logs, west)

SpecCalc == Init /\ [][CalcNext]_vars

\* ------------------------------------------------------------------
\* Properties of the store and the handlers (Spec)
\* ------------------------------------------------------------------

\* the number of rows of a table that hold a key
CountKey(table, user_id, date) ==
  Cardinality({ i \in 1..Len(table) : SameKey(table[i], user_id, date) })

UniqueKeys(table) ==
  \A i, j \in 1..Len(table) :
    (table[i].user_id = table[j].user_id /\ table[i].date = table[j].date) => i = j

Submitted(kind) ==
  /\ last.req.kind = kind
  /\ last.req.res = "ok"

\* C1: in every reachable state each (user, date) has at most one SleepLog
\* and at most one WeightLog, and a submission for a (user, date) that
\* already had a record leaves exactly one record for it, the submitted one.
C1_OneLogPerUserAndDate ==
  /\ UniqueKeys(sleep_logs)
  /\ UniqueKeys(weight_logs)
  /\ (Submitted("sleep") /\ last.req.replaced # << >>) =>
       /\ CountKey(sleep_logs, last.req.user_id, last.req.body.date) = 1
       /\ \E i \in 1..Len(sleep_logs) :
            /\ SameKey(sleep_logs[i], last.req.user_id, last.req.body.date)
            /\ sleep_logs[i].sleep_end = last.req.body.sleepEnd
  /\ (Submitted("weight") /\ last.req.replaced # << >>) =>
       /\ CountKey(weight_logs, last.req.user_id, last.req.body.date) = 1
       /\ \E i \in 1..Len(weight_logs) :
            /\ SameKey(weight_logs[i], last.req.user_id, last.req.body.date)
            /\ last.req.body.weight.t = "number" =>
                 weight_logs[i].weight_kg = Num(last.req.body.weight.n)

\* a weight log was overwritten by a second submission with another weight
\* while the owner also holds a sleep log
C1_Witness ==
  /\ Submitted("weight")
  /\ last.req.replaced # << >>
  /\ last.req.replaced[1].weight_kg # Num(last.req.body.weight.n)
  /\ Len(weight_logs) = 1

\* C2: a second sleep submission for the same (owner, date) leaves exactly
\* one record for that date and every field of it comes from the second
\* submission, a note the second submission omits being cleared; and
\* submitting the payload that was just stored leaves the store as it was.
C2_Reflects ==
  (Submitted("sleep") /\ last.req.replaced # << >>) =>
    LET rows == RowsWith(sleep_logs, last.req.user_id, last.req.body.date)
        b    == last.req.body
    IN  /\ Len(rows) = 1
        /\ rows[1].sleep_start = b.sleepStart
        /\ rows[1].sleep_end = b.sleepEnd
        /\ rows[1].hours_slept = last.req.hoursSlept
        /\ rows[1].quality_rating = last.req.quality
        /\ rows[1].notes = (IF b.notes = Undefined THEN Null ELSE b.notes)

C2_Resubmitted ==
  /\ Submitted("sleep")
  /\ last'.n = last.n + 1
  /\ last'.req.kind = "sleep"
  /\ last'.req.res = "ok"
  /\ last'.req.body = last.req.body
  /\ last'.req.user_id = last.req.user_id

C2_LastWriteWins ==
  /\ []C2_Reflects
  /\ [][C2_Resubmitted => (sleep_logs' = sleep_logs /\ weight_logs' = weight_logs)]_vars

\* the second submission has another sleepEnd and no note, the first had one
C2_Witness ==
  /\ Submitted("sleep")
  /\ last.req.replaced # << >>
  /\ last.req.replaced[1].sleep_end # last.req.body.sleepEnd
  /\ last.req.replaced[1].notes # Null
  /\ last.req.body.notes = Undefined
  /\ Len(sleep_logs) = 1

\* the handlers that carry a submission: in flight, or answered last
Handlers == { reqs[r] : r \in Slots } \cup { last.req }

TableOf(kind) == IF kind = "sleep" THEN sleep_logs ELSE weight_logs

\* C3: however the steps of concurrently handled submissions of one kind for
\* one user and date interleave (lookup, derivation, one upsert each), the
\* store never holds two rows for that (user, date).
C3_NoDuplicateUnderRace ==
  \A h \in Handlers :
    (h.kind \in {"sleep", "weight"} /\ h.raced) =>
      \A i \in 1..Len(users) :
        users[i].telegram_id = h.body.telegramId[1] =>
          CountKey(TableOf(h.kind), users[i].id, h.body.date) <= 1

\* of two sleep submissions in flight together, the later upsert found the
\* row of the earlier one
C3_Witness ==
  /\ Submitted("sleep")
  /\ last.req.raced
  /\ last.req.replaced # << >>
  /\ CountKey(sleep_logs, last.req.user_id, last.req.body.date) = 1

\* ------------------------------------------------------------------
\* Properties of the derivations (SpecCalc)
\* ------------------------------------------------------------------

\* a well-formed time of day "HH:MM", read by the position of its digits
IsClock(str) ==
  /\ Len(str) = 5
  /\ str[3] = ":"
  /\ \A i \in {1, 2, 4, 5} : IsDigit(str[i])
  /\ 10 * DigitVal(str[1]) + DigitVal(str[2]) <= 23
  /\ 10 * DigitVal(str[4]) + DigitVal(str[5]) <= 59

ClockHour(str) == 10 * DigitVal(str[1]) + DigitVal(str[2])

ClockOffset(str) == 60 * ClockHour(str) + 10 * DigitVal(str[4]) + DigitVal(str[5])

\* the score the duration band gives to v tenths of an hour: the bands that
\* hold v, each with its score
BandsHolding(v) ==
  { b \in { <<70, 90, 8>>, <<60, 69, 6>>, <<91, 100, 7>> } : b[1] <= v /\ v <= b[2] }
  \cup (IF v <= 50 THEN { <<v, 50, 3>> } ELSE {})

BandScore(hours) ==
  IF hours.nan \/ BandsHolding(hours.v) = {} THEN 5
  ELSE (CHOOSE b \in BandsHolding(hours.v) : TRUE)[3]

\* the start is given and its hour is 1, 2, 3, 4 or 5
StartsLate(sleepStart) ==
  sleepStart # Undefined /\ IsClock(sleepStart) /\ ClockHour(sleepStart) \in 1..5

StartGivenOrAbsent(sleepStart) == sleepStart = Undefined \/ IsClock(sleepStart)

\* C4: for every hours-slept value and every sleep start, an absent one
\* included, calculateSleepQuality is an integer in [1, 10].
C4_QualityInRange ==
  calc.op \in {"quality", "sleep"} => calc.quality \in 1..10

\* the largest score, reached without a start
C4_Witness ==
  /\ calc.op = "quality"
  /\ calc.sleepStart = Undefined
  /\ calc.hours = Hrs(8)
  /\ calc.quality = 8

\* C5: when no late-bedtime penalty applies (start absent, or its hour
\* outside [1, 6)) the score is that of the duration band alone: 8 on
\* [7, 9], 6 on [6, 7), 7 on (9, 10], 3 up to 5, and 5 everywhere else; at
\* most one band holds a given duration.
C5_BandAlone ==
  (calc.op = "quality" /\ StartGivenOrAbsent(calc.sleepStart)
     /\ ~StartsLate(calc.sleepStart)) =>
    /\ calc.hours.nan \/ Cardinality(BandsHolding(calc.hours.v)) <= 1
    /\ calc.quality = BandScore(calc.hours)

\* 5.5 hours lie between the bands
C5_Witness ==
  /\ calc.op = "quality"
  /\ calc.sleepStart = HHMM(0, 59)
  /\ calc.hours = Num(55)
  /\ calc.quality = 5

\* C6: with a start whose hour is in [1, 6) the score is max(1, base - 2),
\* with any other start hour or none it is base; score(8, "22:00") = 8,
\* score(8, "02:00") = 6, score(4, "23:00") = 3, score(4, "03:00") = 1.
C6_LatePenalty ==
  /\ (calc.op = "quality" /\ StartGivenOrAbsent(calc.sleepStart)) =>
       calc.quality =
         IF StartsLate(calc.sleepStart) THEN Max(1, BandScore(calc.hours) - 2)
         ELSE BandScore(calc.hours)
  /\ calculateSleepQuality(Hrs(8), HHMM(22, 0)) = 8
  /\ calculateSleepQuality(Hrs(8), HHMM(2, 0)) = 6
  /\ calculateSleepQuality(Hrs(4), HHMM(23, 0)) = 3
  /\ calculateSleepQuality(Hrs(4), HHMM(3, 0)) = 1

\* the penalty meets the floor
C6_Witness ==
  /\ calc.op = "quality"
  /\ calc.sleepStart = HHMM(3, 0)
  /\ calc.hours = Hrs(4)
  /\ calc.quality = 1

BothClocks == calc.op = "sleep" /\ IsClock(calc.sleepStart) /\ IsClock(calc.sleepEnd)

\* C7: for start and end offsets in [0, 1439] the duration in minutes is
\* end - start when end > start and end + 1440 - start otherwise, so it lies
\* in [1, 1440] and equal start and end make a session of 24 hours.
C7_Duration ==
  BothClocks =>
    LET start == ClockOffset(calc.sleepStart)
        end   == ClockOffset(calc.sleepEnd)
    IN  /\ calc.minutes = Num(IF end > start THEN end - start ELSE end + 1440 - start)
        /\ calc.minutes.v \in 1..1440
        /\ end = start => calc.minutes.v = 1440

C7_Witness ==
  /\ BothClocks
  /\ calc.sleepStart = HHMM(23, 30)
  /\ calc.sleepEnd = HHMM(23, 30)
  /\ calc.minutes = Num(1440)

\* m minutes in tenths of an hour, rounded half up
HalfUpTenths(m) == (m + 3) \div 6

\* C8: for every duration of 1 to 1440 whole minutes the hours value is the
\* duration divided by 60 and rounded half up to one decimal; 23:30 to 07:15
\* gives 7.8, and every tie (minutes congruent to 3 modulo 6) rounds up.
C8_HalfUp ==
  /\ BothClocks => calc.hoursSlept = Num(HalfUpTenths(calc.minutes.v))
  /\ hoursSleptOf(durationMinutes(HHMM(23, 30), HHMM(7, 15))) = Num(78)

\* the days of a list of logs
DaysOf(logs) == { logs[i].date[1] : i \in 1..Len(logs) }

OneLogPerDay(logs) ==
  \A i, j \in 1..Len(logs) : logs[i].date = logs[j].date => i = j

\* the largest k with a log on each of today, today-1, .., today-(k-1)
LongestRun(days, today) ==
  CHOOSE k \in 0..Cardinality(days) :
    /\ \A i \in 0..(k - 1) : (today - i) \in days
    /\ (today - k) \notin days

\* C10: for logs with at most one log per date calculateStreak returns the
\* largest k such that each of today, today-1, .., today-(k-1) has a log.
C10_StreakIsRunFromToday ==
  (calc.op = "streak" /\ OneLogPerDay(calc.logs)) =>
    calc.streak = LongestRun(DaysOf(calc.logs), calc.today)

\* C11: when no log is dated today calculateStreak returns 0, whatever other
\* dates are logged (yesterday alone gives 0): the walk stops at the first
\* log whose distance in days from today differs from the counter.
C11_NoLogTodayIsZero ==
  (calc.op = "streak" /\ calc.today \notin DaysOf(calc.logs)) => calc.streak = 0

\* ------------------------------------------------------------------
\* Malformed times (Spec)
\* ------------------------------------------------------------------

\* C9: a sleep submission whose sleepStart or sleepEnd is no "HH:MM" with
\* hour 0..23 and minute 0..59 fails with InvalidFormat and writes no
\* SleepLog.
C9_MalformedTimeRejected ==
  /\ (last.req.kind = "sleep" /\ last.req.user_id # 0
        /\ ~(IsClock(last.req.body.sleepStart) /\ IsClock(last.req.body.sleepEnd))) =>
       last.req.res = "invalid_format"
  /\ \A i \in 1..Len(sleep_logs) :
       IsClock(sleep_logs[i].sleep_start) /\ IsClock(sleep_logs[i].sleep_end)

\* ------------------------------------------------------------------
\* Validation, owner resolution and responses (Spec)
\* ------------------------------------------------------------------

\* a field of the sleep submission that must be there is not
SleepFieldAbsent(body) ==
  \E f \in {"telegramId", "date", "sleepStart", "sleepEnd"} : body[f] = Undefined

\* C12: a sleep submission without ownerId, date, sleepStart or sleepEnd
\* fails with MissingFields and goes no further; no submission fails with
\* MissingFields for its note, which may be absent.
C12_MissingFields ==
  /\ last.req.kind = "sleep" =>
       (last.req.res = "missing_fields" <=> SleepFieldAbsent(last.req.body))
  /\ \A r \in Slots : reqs[r].kind = "sleep" => ~SleepFieldAbsent(reqs[r].body)

\* a submission without a date was refused after one without a note was
\* stored
C12_Witness ==
  /\ last.req.kind = "sleep"
  /\ last.req.res = "missing_fields"
  /\ last.req.body.date = Undefined
  /\ \E i \in 1..Len(sleep_logs) : sleep_logs[i].notes = Null

\* C14: a sleep submission that succeeds returns the record as persisted
\* and a pair {hours, quality} that equals the hours-slept and quality
\* fields of the record this call wrote.
C14_ResponsePair ==
  Submitted("sleep") =>
    /\ Len(last.req.data) = 1
    /\ last.req.data = RowsWith(sleep_logs, last.req.user_id, last.req.body.date)
    /\ last.req.data[1].sleep_start = last.req.body.sleepStart
    /\ last.req.data[1].sleep_end = last.req.body.sleepEnd
    /\ last.req.calculated.hours = last.req.data[1].hours_slept
    /\ last.req.calculated.quality = last.req.data[1].quality_rating

\* 23:30 to 07:15 replaced a shorter night: 7.8 hours and quality 8 in the
\* record and in the pair
C14_Witness ==
  /\ Submitted("sleep")
  /\ last.req.replaced # << >>
  /\ last.req.replaced[1].hours_slept # Num(78)
  /\ last.req.data[1].hours_slept = Num(78)
  /\ last.req.calculated = [hours |-> Num(78), quality |-> 8]

\* a weight that is there and is a number, or a string that writes one
IsNumeric(weight) ==
  \/ weight.t = "number"
  \/ /\ weight.t = "string"
     /\ weight.s # << >>
     /\ \A i \in 1..Len(weight.s) : IsDigit(weight.s[i])

\* C15: a weight submission whose weight is absent or not numeric is
\* rejected and writes no WeightLog; one with a numeric weight, 0 included,
\* is not refused for its weight and is stored as a number.
C15_WeightPresentAndNumeric ==
  /\ (last.req.kind = "weight" /\ ~IsNumeric(last.req.body.weight)) =>
       last.req.res # "ok"
  /\ \A i \in 1..Len(weight_logs) : IsNum(weight_logs[i].weight_kg)
  /\ (last.req.kind = "weight" /\ last.req.body.weight.t = "number"
         /\ last.req.body.telegramId # Undefined /\ last.req.body.date # Undefined) =>
       last.req.res # "missing_fields"
  /\ (Submitted("weight") /\ last.req.body.weight.t = "number") =>
       /\ Len(last.req.data) = 1
       /\ last.req.data[1].weight_kg = Num(last.req.body.weight.n)

DeleteKinds == {"weight_delete", "sleep_delete"}

\* the table a delete route deletes from
DeletedFrom(kind) == IF kind = "sleep_delete" THEN sleep_logs ELSE weight_logs

\* the step answers a delete that reached the store
C16_DeleteAnswered ==
  /\ last'.n = last.n + 1
  /\ last'.req.kind \in DeleteKinds
  /\ last'.req.user_id # 0

C16_Deleted ==
  (last.req.kind \in DeleteKinds /\ last.req.res = "ok") =>
    CountKey(DeletedFrom(last.req.kind), last.req.user_id, last.req.body.date) = 0

\* C16: a delete of either kind for a registered owner removes the record
\* of (owner, date) if there is one and succeeds; without such a record it
\* succeeds as well and leaves the store as it was, so the same delete
\* applied a second time changes nothing.
C16_DeleteIdempotent ==
  /\ []C16_Deleted
  /\ [][C16_DeleteAnswered =>
          /\ last'.req.storeOk => last'.req.res = "ok"
          /\ last'.req.replaced = << >> =>
               (sleep_logs' = sleep_logs /\ weight_logs' = weight_logs)
          /\ (last.req.kind = last'.req.kind /\ last.req.res = "ok"
                /\ last.req.user_id = last'.req.user_id
                /\ last.req.body.date = last'.req.body.date) =>
               (sleep_logs' = sleep_logs /\ weight_logs' = weight_logs)]_vars

\* the one sleep log of the store was deleted
C16_Witness ==
  /\ last.req.kind = "sleep_delete"
  /\ last.req.res = "ok"
  /\ last.req.replaced # << >>
  /\ sleep_logs = << >>

\* ------------------------------------------------------------------
\* Properties of the seven routes (SpecRoutes)
\* ------------------------------------------------------------------

\* the routes that resolve an owner
Resolving ==
  {"sleep", "weight", "weight_delete", "sleep_delete", "settings", "dashboard", "streak"}

\* /start has registered the owner the request names
Registered(h) ==
  \E i \in 1..Len(users) : <<users[i].telegram_id>> = LookupId(h)

\* C13: on each of the seven routes an unregistered owner is answered
\* UserNotFound and a failing user lookup StorageUnavailable; neither answer
\* is given for the other cause, and no such request goes on to the store.
C13_NotFoundApartFromStorage ==
  /\ (last.req.kind \in Resolving /\ last.req.res # "missing_fields") =>
       /\ ~last.req.backendOk => last.req.res = "db_error"
       /\ (last.req.backendOk /\ ~Registered(last.req)) => last.req.res = "user_not_found"
       /\ last.req.res = "user_not_found" => (last.req.backendOk /\ ~Registered(last.req))
  /\ \A r \in Slots : reqs[r].pc \in {"write", "second"} => Registered(reqs[r])

\* the lookup of a settings update for a registered owner failed
C13_Witness ==
  /\ last.req.kind = "settings"
  /\ Registered(last.req)
  /\ ~last.req.backendOk
  /\ last.req.res = "db_error"

\* the step answers a settings update that reached the store
C17_SettingsAnswered ==
  /\ last'.n = last.n + 1
  /\ last'.req.kind = "settings"
  /\ last'.req.user_id # 0

\* the target the request supplies is set, the one it leaves out is kept
C17_TargetSetOrKept(supplied, old, new, ok) ==
  IF supplied = WUndefined \/ ~ok THEN new = old ELSE new = supplied

\* C17: a settings update changes on the User only the targets the request
\* supplies: with only targetWeightKg supplied targetSleepHours is kept, with
\* only targetSleepHours supplied targetWeightKg is kept; no other attribute
\* of the user, no other user and no log is changed.
C17_PartialUpdate ==
  [][C17_SettingsAnswered =>
       /\ sleep_logs' = sleep_logs
       /\ weight_logs' = weight_logs
       /\ Len(users') = Len(users)
       /\ \A i \in 1..Len(users) :
            /\ users'[i].id = users[i].id
            /\ users'[i].telegram_id = users[i].telegram_id
            /\ users'[i].username = users[i].username
            /\ users[i].id # last'.req.user_id => users'[i] = users[i]
            /\ users[i].id = last'.req.user_id =>
                 /\ C17_TargetSetOrKept(last'.req.body.targetWeightKg,
                                        users[i].target_weight_kg,
                                        users'[i].target_weight_kg, last'.req.storeOk)
                 /\ C17_TargetSetOrKept(last'.req.body.targetSleepHours,
                                        users[i].target_sleep_hours,
                                        users'[i].target_sleep_hours, last'.req.storeOk)]_vars

\* the sleep target was set first; the update that supplied only the weight
\* target kept it
C17_Witness ==
  /\ last.req.kind = "settings"
  /\ last.req.res = "ok"
  /\ last.req.body.targetSleepHours = WUndefined
  /\ users[1].target_weight_kg = WNumber(650)
  /\ users[1].target_sleep_hours = WNumber(80)

\* the rows of a table that an owner owns, in the table's order
RowsOfOwner(table, user_id) ==
  LET Owned(row) == row.user_id = user_id
  IN  SelectSeq(table, Owned)

\* what a GET route has read for its owner shows that owner's rows only
C20_OwnRowsOnly(h) ==
  (h.kind \in {"dashboard", "streak"}) =>
    /\ \A i \in 1..Len(h.sleep) : h.sleep[i].user_id = h.user_id
    /\ \A i \in 1..Len(h.weight) : h.weight[i].user_id = h.user_id

C20_Visibility ==
  /\ \A r \in Slots : C20_OwnRowsOnly(reqs[r])
  /\ C20_OwnRowsOnly(last.req)
  /\ (last.req.kind = "streak" /\ last.req.res = "ok") =>
       last.req.streak <= Len(RowsOfOwner(sleep_logs, last.req.user_id))

\* C20: the dashboard and the streak of an owner show and count only logs
\* of that owner, and a submission or delete issued for an owner creates,
\* changes and removes no log of another owner.
C20_NoCrossUser ==
  /\ []C20_Visibility
  /\ [][\A i \in 1..Len(users) :
          (last'.n = last.n \/ last'.req.user_id # users[i].id
             \/ <<users[i].telegram_id>> # LookupId(last'.req)) =>
            /\ RowsOfOwner(sleep_logs', users[i].id) = RowsOfOwner(sleep_logs, users[i].id)
            /\ RowsOfOwner(weight_logs', users[i].id) = RowsOfOwner(weight_logs, users[i].id)]_vars

\* the dashboard of owner 1 shows no sleep log while owner 2 holds one
C20_Witness ==
  /\ last.req.kind = "dashboard"
  /\ last.req.res = "ok"
  /\ last.req.user_id = 1
  /\ last.req.sleep = << >>
  /\ Len(RowsOfOwner(sleep_logs, 2)) = 1

\* ------------------------------------------------------------------
\* Properties of the GET routes (SpecRead)
\* ------------------------------------------------------------------

\* the positions of the rows of an owner in a table
OwnedIn(table, user_id) == { i \in 1..Len(table) : table[i].user_id = user_id }

\* rows is what a dashboard may show of the table: at most 7 rows, all of
\* them rows of the owner, newest first, and none of the owner's rows left
\* out unless 7 are shown and it is older than each of them
C18_SevenNewest(rows, table, user_id) ==
  /\ Len(rows) <= 7
  /\ \A i \in 1..Len(rows) : \E k \in OwnedIn(table, user_id) : table[k] = rows[i]
  /\ \A i, j \in 1..Len(rows) : i < j => rows[i].date[1] > rows[j].date[1]
  /\ \A k \in OwnedIn(table, user_id) :
       (\A i \in 1..Len(rows) : rows[i] # table[k]) =>
         /\ Len(rows) = 7
         /\ \A i \in 1..Len(rows) : table[k].date[1] < rows[i].date[1]

\* C18: the dashboard of an owner returns of each category at most 7 rows,
\* also when the owner has more, newest first, and they are the owner's
\* most recent rows: no row left out is newer than a row returned.
C18_DashboardWindow ==
  (last.req.kind = "dashboard" /\ last.req.res = "ok") =>
    /\ C18_SevenNewest(last.req.sleep, sleep_logs, last.req.user_id)
    /\ C18_SevenNewest(last.req.weight, weight_logs, last.req.user_id)

\* the owner has more than 7 logs of each category, 7 of each are shown
C18_Witness ==
  /\ last.req.kind = "dashboard"
  /\ last.req.res = "ok"
  /\ Cardinality(OwnedIn(sleep_logs, last.req.user_id)) > 7
  /\ Cardinality(OwnedIn(weight_logs, last.req.user_id)) > 7
  /\ Len(last.req.sleep) = 7
  /\ Len(last.req.weight) = 7
  /\ last.req.sleep[1].date = <<Today>>

\* the days on which an owner has a sleep log
SleepDays(user_id) ==
  { sleep_logs[i].date[1] : i \in OwnedIn(sleep_logs, user_id) }

\* C19: the streak of an owner is calculated over all of the owner's sleep
\* logs and not over the 7 rows of the dashboard: with logs on each of the
\* last n days ending today, n > 7, the streak is n.
C19_StreakOverAllLogs ==
  (last.req.kind = "streak" /\ last.req.res = "ok") =>
    \A n \in 8..Len(sleep_logs) :
      SleepDays(last.req.user_id) = (Today - n + 1)..Today => last.req.streak = n

\* ------------------------------------------------------------------
\* Frames, failures and the shape of the responses (Spec)
\* ------------------------------------------------------------------

\* the rows of a table that hold another key than (user_id, date)
OtherRows(table, user_id, date) ==
  LET Other(row) == row.user_id # user_id \/ row.date # date
  IN  SelectSeq(table, Other)

\* the table holds at most one row more or less than before
AtMostOneRow(old, new) ==
  Len(new) - Len(old) \in {-1, 0, 1}

\* the requests that write to a log table
LogKinds == {"sleep", "weight", "sleep_delete", "weight_delete"}

\* the step is the store call of a request of one of the kinds, and the
\* request is the one recorded as answered
StoreCallOf(kinds) ==
  /\ last'.n # last.n
  /\ last'.req.kind \in kinds
  /\ last'.req.user_id # 0

\* C21: each submission or delete call affects at most one row.  The store
\* call of a sleep submission or sleep delete for (owner, date) leaves
\* every sleep log with a different key, and every weight log, as it was;
\* the store call of a weight submission or weight delete leaves every
\* weight log with a different key, and every sleep log, as it was; and no
\* other step of a handler changes a log at all.
C21_OneRowPerCall ==
  [][ /\ StoreCallOf({"sleep", "sleep_delete"}) =>
           /\ weight_logs' = weight_logs
           /\ OtherRows(sleep_logs', last'.req.user_id, last'.req.body.date)
                = OtherRows(sleep_logs, last'.req.user_id, last'.req.body.date)
           /\ AtMostOneRow(sleep_logs, sleep_logs')
      /\ StoreCallOf({"weight", "weight_delete"}) =>
           /\ sleep_logs' = sleep_logs
           /\ OtherRows(weight_logs', last'.req.user_id, last'.req.body.date)
                = OtherRows(weight_logs, last'.req.user_id, last'.req.body.date)
           /\ AtMostOneRow(weight_logs, weight_logs')
      /\ ~StoreCallOf(LogKinds) =>
           /\ sleep_logs' = sleep_logs
           /\ weight_logs' = weight_logs ]_vars

\* a submission was stored beside a log of another key of the same table,
\* which is still there
C21_Witness ==
  /\ last.req.kind = "sleep"
  /\ last.req.res = "ok"
  /\ last.req.data # << >>
  /\ OtherRows(sleep_logs, last.req.user_id, last.req.body.date) # << >>

\* the handlers in flight
InFlight(rs) == { r \in Slots : rs[r].pc # "idle" }

\* the response carries nothing but its error
NoPayload(h) ==
  /\ h.data = << >>
  /\ h.sleep = << >>
  /\ h.weight = << >>
  /\ h.user = << >>
  /\ h.streak = 0
  /\ h.calculated = Idle.calculated

\* the step answers a request one of whose store calls failed: its write,
\* its query, or the sleep query of a dashboard
FailedStoreCall ==
  /\ last'.n # last.n
  /\ last'.req.user_id # 0
  /\ ~last'.req.storeOk \/ last'.req.sleepErr

\* C22: a request whose store call fails (upsert, delete, update, either
\* query of the dashboard, the query of the streak) is answered db_error in
\* the step in which the failure is seen and carries no rows, targets or
\* streak; that step writes nothing to the store and ends the handler, so
\* the call is not made again; a dashboard whose sleep query failed holds no
\* rows while it waits for the weight query, and writes nothing.
C22_FailsOutright ==
  [][ /\ FailedStoreCall =>
           /\ last'.req.res = "db_error"
           /\ last'.req.pc = "done"
           /\ NoPayload(last'.req)
           /\ UNCHANGED <<users, sleep_logs, weight_logs>>
           /\ Cardinality(InFlight(reqs')) = Cardinality(InFlight(reqs)) - 1
      /\ \A r \in Slots :
           reqs[r].sleepErr =>
             /\ reqs[r].kind = "dashboard"
             /\ reqs[r].pc = "second"
             /\ reqs[r].sleep = << >>
             /\ reqs'[r] # reqs[r] => /\ reqs'[r] = Idle
                                      /\ FailedStoreCall
                                      /\ last'.req.sleepErr ]_vars

\* the dashboard of an owner who has a sleep log: its sleep query failed,
\* its weight query did not, and it was answered db_error
C22_Witness ==
  /\ last.req.kind = "dashboard"
  /\ last.req.sleepErr
  /\ last.req.storeOk
  /\ last.req.res = "db_error"
  /\ SelectOwner(sleep_logs, last.req.user_id) # << >>

\* the error kinds a response can carry
ErrorKinds == {"missing_fields", "user_not_found", "db_error", "server_error"}

\* C23: every request that a handler has taken is either still in flight
\* at one of its awaits or has been answered exactly once, so the responses
\* and the handlers in flight add up to the requests; every response is
\* { ok: true, .. } or { error: kind } with one of the four kinds; and a
\* sleep submission whose derivation raises an exception (a time that is
\* not a string) is answered server_error.
C23_OneResponse ==
  /\ last.n + Cardinality(InFlight(reqs)) = ops
  /\ \A r \in InFlight(reqs) :
       /\ reqs[r].res = "none"
       /\ reqs[r].pc \in {"lookup", "write", "second"}
       /\ reqs[r].pc = "second" => reqs[r].kind = "dashboard"
       /\ reqs[r].kind = "sleep" /\ reqs[r].pc = "write" => ~splitThrows(reqs[r].body)
  /\ last.n > 0 =>
       /\ last.req.pc = "done"
       /\ last.req.res \in {"ok"} \cup ErrorKinds
       /\ last.req.res # "ok" => NoPayload(last.req)
       /\ last.req.res = "server_error" =>
            /\ last.req.kind = "sleep"
            /\ splitThrows(last.req.body)
       /\ (last.req.kind = "sleep" /\ splitThrows(last.req.body)) =>
            last.req.res \in ErrorKinds

\* a sleep submission of a registered owner whose sleepStart is a number
\* was answered server_error
C23_Witness ==
  /\ last.req.kind = "sleep"
  /\ last.req.body.sleepStart = JNumber
  /\ last.req.res = "server_error"

\* ------------------------------------------------------------------
\* Properties of the user directory (SpecStart)
\* ------------------------------------------------------------------

\* the step answers a request of the kind
Answers(kind) ==
  /\ last'.n # last.n
  /\ last'.req.kind = kind

OneUserPerChat(table) ==
  \A i, j \in 1..Len(table) :
    table[i].telegram_id = table[j].telegram_id => i = j

\* C28: however the steps of the /start handlers of one chat id interleave,
\* the directory holds at most one user of that chat id, and a step of a
\* /start handler for a chat id that has a user leaves the directory as it
\* is.
C28_OneUserPerChatId ==
  [][ /\ OneUserPerChat(users')
      /\ \A r \in Slots :
           /\ reqs[r].kind = "start"
           /\ reqs'[r] # reqs[r]
           /\ UsersWith(users, reqs[r].body.telegramId) # << >>
           => users' = users ]_vars

\* ------------------------------------------------------------------
\* Stored sleep logs against their own inputs (Spec)
\* ------------------------------------------------------------------

\* hours, in tenths, is minutes / 60 rounded to one decimal: it lies within
\* half a tenth (3 minutes) of the duration
RoundedToTenth(hours, minutes) ==
  /\ IsNum(hours)
  /\ 6 * hours.v - minutes \in -3..3

\* C25: every row of sleep_logs agrees with its own sleep_start and
\* sleep_end: hours_slept is their duration in hours rounded to one decimal
\* (no number when the times give no duration), quality_rating is
\* calculateSleepQuality of that hours_slept and the sleep_start, and is
\* one of 1..10; a submission that carries hours and a quality of the
\* client's choosing stores the derived values all the same.
C25_DerivedFromInputs ==
  \A i \in 1..Len(sleep_logs) :
       LET row     == sleep_logs[i]
           minutes == durationMinutes(row.sleep_start, row.sleep_end)
       IN  /\ IF IsNum(minutes) THEN RoundedToTenth(row.hours_slept, minutes.v)
                                ELSE row.hours_slept = NaN
           /\ row.hours_slept =
                hoursSleptOf(durationMinutes(row.sleep_start, row.sleep_end))
           /\ row.quality_rating =
                calculateSleepQuality(row.hours_slept, row.sleep_start)
           /\ row.quality_rating \in 1..10

\* a submission that carried 12.0 hours and quality 10 was stored with the
\* hours and quality of its times, 23:30 to 06:00
C25_Witness ==
  /\ last.req.kind = "sleep"
  /\ last.req.res = "ok"
  /\ last.req.body.hours = WNumber(120)
  /\ last.req.body.quality = WNumber(10)
  /\ last.req.data # << >>
  /\ last.req.data[1].hours_slept = Num(65)
  /\ last.req.data[1].quality_rating < 10
  /\ RowsWith(sleep_logs, last.req.user_id, last.req.body.date) = last.req.data

\* ------------------------------------------------------------------
\* Rejected requests (SpecRoutes)
\* ------------------------------------------------------------------

\* the kinds of request that write: submissions, deletes and settings
WriteKinds == LogKinds \cup {"settings"}

\* a required field of the request is absent
RequiredAbsent(h) ==
  \/ h.body.telegramId = Undefined
  \/ h.kind \in LogKinds /\ h.body.date = Undefined
  \/ h.kind = "sleep" /\ SleepFieldAbsent(h.body)
  \/ h.kind = "weight" /\ h.body.weight.t \in {"undefined", "null"}

\* the step answers a request of a writing kind with the error
Rejects(res) ==
  /\ last'.n # last.n
  /\ last'.req.kind \in WriteKinds
  /\ last'.req.res = res

\* C26: a submission, delete or settings request that is answered
\* missing_fields is answered before any handler is suspended on a store
\* call, whoever the owner is; one answered user_not_found, or db_error by
\* the user lookup, is answered by the step in which the lookup returns, its
\* only store call; in both cases users and both log tables stay as they
\* are.  A handler suspended on a store call has all its required fields,
\* and the store changes only in the step that answers ok a request that
\* has passed validation and lookup.
C26_RejectedLeavesStore ==
  [][ /\ Rejects("missing_fields") =>
           /\ RequiredAbsent(last'.req)
           /\ reqs' = reqs
           /\ UNCHANGED <<users, sleep_logs, weight_logs>>
      /\ (Rejects("user_not_found") \/ (Rejects("db_error") /\ last'.req.user_id = 0)) =>
           /\ UNCHANGED <<users, sleep_logs, weight_logs>>
           /\ \E r \in Slots : /\ reqs[r].pc = "lookup"
                               /\ reqs[r].kind = last'.req.kind
                               /\ reqs[r].body = last'.req.body
                               /\ reqs'[r] = Idle
      /\ \A r \in InFlight(reqs) :
           reqs[r].kind \in WriteKinds => ~RequiredAbsent(reqs[r])
      /\ <<users, sleep_logs, weight_logs>>' # <<users, sleep_logs, weight_logs>> =>
           /\ last'.n # last.n
           /\ last'.req.kind \in WriteKinds
           /\ last'.req.res = "ok"
           /\ last'.req.user_id # 0
           /\ ~RequiredAbsent(last'.req) ]_vars

\* a settings request without a chat id, rejected while the store holds a
\* sleep log
C26_Witness ==
  /\ last.req.kind = "settings"
  /\ last.req.res = "missing_fields"
  /\ last.req.body.targetWeightKg # WUndefined
  /\ sleep_logs # << >>

\* ------------------------------------------------------------------
\* The streak after a submission dated today (SpecStreak)
\* ------------------------------------------------------------------

\* the rows hold a log dated today
LoggedToday(rows) == \E i \in 1..Len(rows) : rows[i].date = <<Today>>

\* C27: once a sleep submission dated today has been stored for an owner,
\* and for as long as that log is not deleted, the streak of the owner is at
\* least 1 whenever it is asked, whatever other sleep logs the owner has,
\* a log dated after today included: a streak request answered ok whose
\* query found the owner's log dated today reports a streak of 1 or more.
C27_StreakAfterTodaysLog ==
  (/\ last.req.kind = "streak"
   /\ last.req.res = "ok"
   /\ LoggedToday(last.req.sleep)) => last.req.streak >= 1

====
